---- MODULE Spec2Model ----
(***************************************************************************)
(* A model of the scales and of the axis of rustplotlib:                   *)
(*   src/src/scales/linear.rs       ScaleLinear                            *)
(*   src/src/scales/logarithmic.rs  ScaleLogarithmic                       *)
(*   src/src/scales/mod.rs          the Scale trait                        *)
(*   src/src/axis.rs                Axis                                   *)
(*   src/src/components/axis.rs     AxisTick                               *)
(*                                                                         *)
(* Numbers.  An f32 is modelled by the rational number it denotes, a pair  *)
(* <<n, d>> in lowest terms with d > 0, and an f32 operation by its exact  *)
(* result.  The values the model draws are small integers and halves, and  *)
(* 2^-23 and 2^-24: all of them are f32 values, and sums, differences and  *)
(* products of them are computed by f32 without rounding.  A quotient is   *)
(* kept exact where f32 would round it to the nearest value.  NaN, which   *)
(* the code produces from the logarithm of a negative number, is the       *)
(* value NaN below; a cast `as i32` truncates toward zero and maps NaN     *)
(* to 0, as Rust defines it.  The sign of a zero is not modelled: the f32  *)
(* -0.0 is the rational 0.                                                 *)
(***************************************************************************)
EXTENDS Integers, Sequences, FiniteSets, TLC

VARIABLES linear, logarithmic, axis, result, history

vars == <<linear, logarithmic, axis, result, history>>

(***************************************************************************)
(* Bounds of the model.                                                    *)
(***************************************************************************)
\* Domain limits are m * 10^e / 2 for m in -1..MaxMant and e in 0..MaxExp.
MaxMant == 2
MaxExp == 2

(***************************************************************************)
(* Rational arithmetic.                                                    *)
(***************************************************************************)
RECURSIVE GCD(_, _)
GCD(a, b) == IF b = 0 THEN a ELSE GCD(b, a % b)

AbsInt(n) == IF n < 0 THEN -n ELSE n

\* The rational n/d (d # 0) in lowest terms, its sign in the numerator.
Rat(n, d) ==
    LET g == GCD(AbsInt(n), AbsInt(d))
        s == IF d < 0 THEN -1 ELSE 1
    IN  <<s * (n \div g), s * (d \div g)>>

R(n) == <<n, 1>>

Neg(x) == <<-x[1], x[2]>>

Abs(x) == <<AbsInt(x[1]), x[2]>>

Add(x, y) ==
    LET g == GCD(x[2], y[2])
    IN  Rat(x[1] * (y[2] \div g) + y[1] * (x[2] \div g), (x[2] \div g) * y[2])

Sub(x, y) == Add(x, Neg(y))

Mul(x, y) ==
    LET g1 == GCD(AbsInt(x[1]), y[2])
        g2 == GCD(AbsInt(y[1]), x[2])
    IN  IF x[1] = 0 \/ y[1] = 0 THEN R(0)
        ELSE <<(x[1] \div g1) * (y[1] \div g2), (x[2] \div g2) * (y[2] \div g1)>>

\* 1/x, x # 0.
Inv(x) == IF x[1] < 0 THEN <<-x[2], -x[1]>> ELSE <<x[2], x[1]>>

\* x/y, y # 0.
Div(x, y) == Mul(x, Inv(y))

Floor(x) == x[1] \div x[2]

Ceil(x) == -((-x[1]) \div x[2])

\* f32 `as i32` on a finite value: the fraction is dropped, toward zero.
Trunc(x) == IF x[1] < 0 THEN Ceil(x) ELSE Floor(x)

\* x < y, by integer parts and then by the reciprocals of the fractions, so
\* that no product of a numerator and a denominator is ever formed.
RECURSIVE Less(_, _)
Less(x, y) ==
    LET fx == Floor(x)
        fy == Floor(y)
        rx == x[1] - fx * x[2]
        ry == y[1] - fy * y[2]
    IN  IF fx # fy THEN fx < fy
        ELSE IF rx = 0 THEN ry > 0
        ELSE IF ry = 0 THEN FALSE
        ELSE Less(<<y[2], ry>>, <<x[2], rx>>)

Leq(x, y) == ~Less(y, x)

\* 10^p for an integer p: 10_f32.powi(p).
RECURSIVE Pow10(_)
Pow10(p) ==
    IF p = 0 THEN R(1)
    ELSE IF p > 0 THEN Mul(R(10), Pow10(p - 1))
    ELSE Inv(Pow10(-p))

\* floor(log10(x)) for x > 0.
RECURSIVE FloorLog10(_)
FloorLog10(x) ==
    IF Less(x, R(1)) THEN FloorLog10(Mul(x, R(10))) - 1
    ELSE IF Less(x, R(10)) THEN 0
    ELSE FloorLog10(Div(x, R(10))) + 1

\* Not a number: the logarithm of a negative number and what is computed from it.
NaN == "NaN"

(***************************************************************************)
(* ScaleLinear                                                             *)
(***************************************************************************)
\* f32::EPSILON = 2^-23.
EpsilonDenominator == 8388608
EPSILON == Rat(1, EpsilonDenominator)

\* ScaleLinear::default(): no domain, range [0, 1], ten ticks.
DefaultTickCount == 10
ScaleLinearDefault == [domain |-> <<>>, range |-> <<0, 1>>, tick_count |-> DefaultTickCount]

\* normalize with the operands of the first subtraction exchanged.
normalize_exchanged(a, b, x) ==
    IF Less(Abs(Sub(a, b)), EPSILON)
    THEN Rat(1, 2)
    ELSE Div(Sub(a, x), Sub(b, a))

\* Takes a value x in [a, b] and returns the corresponding value in [0, 1].
normalize(a, b, x) ==
    IF Less(Abs(Sub(a, b)), EPSILON)
    THEN Rat(1, 2)
    ELSE Div(Sub(x, a), Sub(b, a))

\* interpolate with the width taken as a - b.
interpolate_exchanged(a, b, t) == Add(Mul(Sub(a, b), t), a)

\* interpolate without the offset a.
interpolate_unshifted(a, b, t) == Mul(Sub(b, a), t)

\* Takes a value t in [0, 1] and returns the corresponding value in [a, b].
interpolate(a, b, t) == Add(Mul(Sub(b, a), t), a)

\* Get the range value for the given domain entry.
scale(self, x) ==
    LET normalized == normalize(self.domain[1], self.domain[2], x)
    IN  interpolate(R(self.range[1]), R(self.range[2]), normalized)

range_start(self) == R(self.range[1])

range_end(self) == R(self.range[2])

\* Scale::is_range_reversed: the start is greater than the end.
is_range_reversed(self) == Less(range_end(self), range_start(self))

\* (step.ln() / 10_f32.ln()).trunc() as i32: the logarithm to base ten with
\* its fraction dropped toward zero; the logarithm of a negative step is NaN,
\* which the cast turns into 0.
TruncLog10(step) ==
    IF Less(step, R(0)) THEN 0
    ELSE LET fl == FloorLog10(step)
         IN  IF fl >= 0 \/ Pow10(fl) = step THEN fl ELSE fl + 1

\* The thresholds 2_f32.sqrt(), 10_f32.sqrt() and 50_f32.sqrt(), as the f32
\* values they are.
e2 == Rat(11863283, 8388608)
e5 == Rat(6631777, 2097152)
e10 == Rat(926819, 131072)

\* The multiplier taken to be the integer part of the error.
Dynamic_truncated(error) == IF Less(error, R(1)) THEN 1 ELSE Trunc(error)

\* The multiplier of the decade the error falls in.
Dynamic(error) ==
    IF Leq(e10, error) THEN 10
    ELSE IF Leq(e5, error) THEN 5
    ELSE IF Leq(e2, error) THEN 2
    ELSE 1

\* std::cmp::max
Max(a, b) == IF a < b THEN b ELSE a

\* Compute the distance between the ticks: positive, the distance itself;
\* negative, minus its reciprocal.  (stop = start is not modelled: get_ticks
\* returns before it calls tick_step.)
tick_step(self, start, stop) ==
    LET step == Div(Sub(stop, start), R(Max(0, self.tick_count)))
        power == TruncLog10(step)
        error == Div(step, Pow10(power))
        dynamic == Dynamic(error)
    IN  IF power < 0
        THEN Div(Neg(Pow10(-power)), R(dynamic))
        ELSE Mul(R(dynamic), Pow10(power))

\* get_ticks with the loops stopping one tick early.
get_ticks_short(self) ==
    LET d0 == self.domain[1]
        d1 == self.domain[2]
    IN  IF Less(Abs(Sub(d0, d1)), EPSILON) /\ self.tick_count > 0
        THEN <<d0>>
        ELSE LET step == tick_step(self, d0, d1)
             IN  IF Less(R(0), step)
                 THEN LET start == Ceil(Div(d0, step))
                          stop == Floor(Div(d1, step))
                          nr_of_ticks == stop - start
                      IN  [i \in 1..nr_of_ticks |-> Mul(R(start + (i - 1)), step)]
                 ELSE LET start == Floor(Mul(d0, step))
                          stop == Ceil(Mul(d1, step))
                          nr_of_ticks == start - stop
                      IN  [i \in 1..nr_of_ticks |-> Div(R(start - (i - 1)), step)]

\* get_ticks returning from the equal-limits case without the tick.
get_ticks_no_push(self) ==
    LET d0 == self.domain[1]
        d1 == self.domain[2]
    IN  IF Less(Abs(Sub(d0, d1)), EPSILON) /\ self.tick_count > 0
        THEN <<>>
        ELSE LET step == tick_step(self, d0, d1)
             IN  IF Less(R(0), step)
                 THEN LET start == Ceil(Div(d0, step))
                          stop == Floor(Div(d1, step))
                          nr_of_ticks == stop - start + 1
                      IN  [i \in 1..nr_of_ticks |-> Mul(R(start + (i - 1)), step)]
                 ELSE LET start == Floor(Mul(d0, step))
                          stop == Ceil(Mul(d1, step))
                          nr_of_ticks == start - stop + 1
                      IN  [i \in 1..nr_of_ticks |-> Div(R(start - (i - 1)), step)]

\* Get the list of ticks that represent the scale on a chart axis.
get_ticks(self) ==
    LET d0 == self.domain[1]
        d1 == self.domain[2]
    IN  IF Less(Abs(Sub(d0, d1)), EPSILON) /\ self.tick_count > 0
        THEN <<d0>>
        ELSE LET step == tick_step(self, d0, d1)
             IN  IF Less(R(0), step)
                 THEN LET start == Ceil(Div(d0, step))
                          stop == Floor(Div(d1, step))
                          nr_of_ticks == stop - start + 1
                      IN  [i \in 1..nr_of_ticks |-> Mul(R(start + (i - 1)), step)]
                 ELSE LET start == Floor(Mul(d0, step))
                          stop == Ceil(Mul(d1, step))
                          nr_of_ticks == start - stop + 1
                      IN  [i \in 1..nr_of_ticks |-> Div(R(start - (i - 1)), step)]

(***************************************************************************)
(* The inputs of the linear scale.                                         *)
(***************************************************************************)
RECURSIVE IntPow10(_)
IntPow10(e) == IF e = 0 THEN 1 ELSE 10 * IntPow10(e - 1)

\* The domain limits on the grid: halves, units, tens, ...
GridVals == {Rat(m * IntPow10(e), 2) : m \in -1..MaxMant, e \in 0..MaxExp}

\* Limits closer than f32::EPSILON without being equal, and exactly
\* f32::EPSILON apart.
HalfEpsilon == Rat(1, 2 * EpsilonDenominator)
TinyDomains == {<<R(0), HalfEpsilon>>, <<HalfEpsilon, R(0)>>, <<R(0), EPSILON>>}

Domains == (GridVals \X GridVals) \cup TinyDomains

\* The pixel ranges: the default [0, 1], the chart's [0, 500], reversed and empty ones.
RangeVals == {0, 1, 500}
Ranges == RangeVals \X RangeVals

\* The values a scale is asked to map: its domain limits, their midpoint and,
\* for a domain on the grid, a few fixed values inside and outside of it.
FixedXs == {R(0), R(50), Rat(1, 2), R(-5), R(200)}
XsOf(d) ==
    {d[1], d[2], Div(Add(d[1], d[2]), R(2))}
        \cup (IF d \in TinyDomains THEN {} ELSE FixedXs)

NoResult == [op |-> "none"]

(***************************************************************************)
(* The linear scale: the builder and the calls of scale and get_ticks.     *)
(***************************************************************************)
\* The other components at rest.
NoAxis == [position |-> "none"]
\* Option: None and Some(v), and the value of a Some.
None == <<>>
Some(v) == <<v>>
Unwrap(o) == o[1]
\* The argument of the latest call of each of the setters of the tick labels.
NoHistory == [font_size |-> None, rotation |-> None, format |-> None]
ScaleLogarithmicDefault ==
    [domain |-> <<R(1), R(1000)>>, range |-> <<0, 1>>, tick_count |-> DefaultTickCount]

Init ==
    /\ linear = ScaleLinearDefault
    /\ logarithmic = ScaleLogarithmicDefault
    /\ axis = NoAxis
    /\ result = NoResult
    /\ history = NoHistory

\* ScaleLinear::set_domain
SetDomain(d) ==
    /\ linear' = [linear EXCEPT !.domain = d]
    /\ result' = NoResult
    /\ UNCHANGED <<logarithmic, axis, history>>

\* ScaleLinear::set_range
SetRange(r) ==
    /\ linear' = [linear EXCEPT !.range = r]
    /\ result' = NoResult
    /\ UNCHANGED <<logarithmic, axis, history>>

\* Scale::scale on the linear scale; indexing an empty domain panics.
CallScale ==
    /\ IF Len(linear.domain) < 2
       THEN result' = [op |-> "panic"]
       ELSE \E x \in XsOf(linear.domain) :
                result' = [op |-> "scale", x |-> x, value |-> scale(linear, x)]
    /\ UNCHANGED <<linear, logarithmic, axis, history>>

\* Scale::get_ticks on the linear scale; indexing an empty domain panics.
CallGetTicks ==
    /\ IF Len(linear.domain) < 2
       THEN result' = [op |-> "panic"]
       ELSE result' = [op |-> "get_ticks", ticks |-> get_ticks(linear)]
    /\ UNCHANGED <<linear, logarithmic, axis, history>>

Next ==
    \/ \E d \in Domains : SetDomain(d)
    \/ \E r \in Ranges : SetRange(r)
    \/ CallScale
    \/ CallGetTicks

Spec == Init /\ [][Next]_vars

(***************************************************************************)
(* The claims about the linear scale, checked under Spec.                  *)
(***************************************************************************)
DomainSet == Len(linear.domain) = 2

\* The limits are told apart by normalize and get_ticks: |a - b| >= EPSILON.
Distinct(a, b) == ~Less(Abs(Sub(a, b)), EPSILON)

\* (end - start) * ((x - a) / (b - a)) + start
LinearMap(self, x) ==
    LET a == self.domain[1]
        b == self.domain[2]
        start == R(self.range[1])
        end == R(self.range[2])
    IN  Add(Mul(Sub(end, start), Div(Sub(x, a), Sub(b, a))), start)

ScaleIsLinearMap ==
    /\ result.value = LinearMap(linear, result.x)
    /\ result.x = linear.domain[1] => result.value = range_start(linear)
    /\ result.x = linear.domain[2] => result.value = range_end(linear)

\* C1 as stated: for every domain [a,b] with a != b, scale(x) is
\* (end-start)*((x-a)/(b-a)) + start, so scale(a) = start and scale(b) = end.
C1_AsStated ==
    (result.op = "scale" /\ linear.domain[1] # linear.domain[2]) => ScaleIsLinearMap

\* C1, amended: for every domain [a,b] with |a - b| >= f32::EPSILON, scale(x) is
\* (end-start)*((x-a)/(b-a)) + start, so scale(a) = start and scale(b) = end;
\* domain [0,100] and range [0,500] give scale(50) = 250.
C1_ScaleIsLinear ==
    /\ (result.op = "scale" /\ Distinct(linear.domain[1], linear.domain[2]))
           => ScaleIsLinearMap
    /\ (/\ result.op = "scale"
        /\ linear.domain = <<R(0), R(100)>>
        /\ linear.range = <<0, 500>>
        /\ result.x = R(50)) => result.value = R(250)

C1_Witness ==
    /\ result.op = "scale"
    /\ linear.domain = <<R(0), R(100)>>
    /\ linear.range = <<0, 500>>
    /\ result.x = R(50)
    /\ result.value = R(250)

\* scale is non-decreasing from result.x upwards when the range is not
\* reversed, and non-increasing when it is.
MonotonicFromResult ==
    \A x2 \in XsOf(linear.domain) :
        Less(result.x, x2) =>
            IF is_range_reversed(linear)
            THEN Leq(scale(linear, x2), result.value)
            ELSE Leq(result.value, scale(linear, x2))

\* C2 as stated: for every domain, scale is monotonic: x1 < x2 gives
\* scale(x1) <= scale(x2) when range_start <= range_end and scale(x1) >= scale(x2)
\* when range_start > range_end.
C2_AsStated == result.op = "scale" => MonotonicFromResult

\* C2, amended: for every domain [a,b] with a <= b, x1 < x2 gives
\* scale(x1) <= scale(x2) when range_start <= range_end and scale(x1) >= scale(x2)
\* when range_start > range_end.
C2_ScaleMonotonic ==
    (result.op = "scale" /\ Leq(linear.domain[1], linear.domain[2]))
        => MonotonicFromResult

\* A call on an ascending domain and a reversed range, with a larger x mapped
\* strictly lower.
C2_Witness ==
    /\ result.op = "scale"
    /\ Less(linear.domain[1], linear.domain[2])
    /\ is_range_reversed(linear)
    /\ \E x2 \in XsOf(linear.domain) :
           Less(result.x, x2) /\ Less(scale(linear, x2), result.value)

\* The parameters t the round trip is tried on.
TVals == {R(0), Rat(1, 2), R(1), R(2), R(-1), Rat(1, 4)}

\* C3 as stated: for a != b, interpolate(a,b,normalize(a,b,interpolate(a,b,t))) = t
\* for every t; for a = b, normalize(a,b,x) = 0.5 for every x.
C3_AsStated ==
    result.op = "scale" =>
        LET a == linear.domain[1]
            b == linear.domain[2]
        IN  /\ a # b =>
                \A t \in TVals :
                    interpolate(a, b, normalize(a, b, interpolate(a, b, t))) = t
            /\ a = b => \A x \in XsOf(linear.domain) : normalize(a, b, x) = Rat(1, 2)

\* C3, amended: for |a - b| >= f32::EPSILON, normalize(a,b,interpolate(a,b,t)) = t
\* for every t, and so interpolate(a,b,normalize(a,b,interpolate(a,b,t))) =
\* interpolate(a,b,t); for |a - b| < f32::EPSILON, and so for a = b,
\* normalize(a,b,x) = 0.5 for every x.
C3_RoundTrip ==
    result.op = "scale" =>
        LET a == linear.domain[1]
            b == linear.domain[2]
        IN  /\ Distinct(a, b) =>
                \A t \in TVals :
                    /\ normalize(a, b, interpolate(a, b, t)) = t
                    /\ interpolate(a, b, normalize(a, b, interpolate(a, b, t)))
                           = interpolate(a, b, t)
            /\ ~Distinct(a, b) =>
                \A x \in XsOf(linear.domain) : normalize(a, b, x) = Rat(1, 2)

\* A call of scale on a domain that does not start at 0, where interpolate
\* moves t = 1/2 away from itself and normalize brings it back.
C3_Witness ==
    /\ result.op = "scale"
    /\ Distinct(linear.domain[1], linear.domain[2])
    /\ linear.domain[1] # R(0)
    /\ interpolate(linear.domain[1], linear.domain[2], Rat(1, 2)) # Rat(1, 2)
    /\ normalize(linear.domain[1], linear.domain[2],
                 interpolate(linear.domain[1], linear.domain[2], Rat(1, 2))) = Rat(1, 2)

\* The distance a value of tick_step denotes: the value itself when positive,
\* 1/|value| when negative.
Spacing(step) == IF Less(step, R(0)) THEN Inv(Neg(step)) ELSE step

\* s = m * 10^k for some m in {1, 2, 5, 10} and some integer k: s is positive
\* and, brought into [1, 10) by a power of ten, it is 1, 2 or 5 (m = 10 is
\* m = 1 of the next decade).
IsNice(s) ==
    /\ Less(R(0), s)
    /\ Div(s, Pow10(FloorLog10(s))) \in {R(1), R(2), R(5)}

\* C4: for every domain [start,stop] with start < stop, the spacing tick_step
\* denotes is m * 10^k for some m in {1,2,5,10} and some integer k.
C4_NiceStep ==
    (DomainSet /\ Less(linear.domain[1], linear.domain[2]))
        => IsNice(Spacing(tick_step(linear, linear.domain[1], linear.domain[2])))

\* get_ticks has run tick_step down its reciprocal branch (domain [0,1], step
\* 1/10) and, on another domain, chosen the multiplier 5.
C4_Witness ==
    /\ result.op = "get_ticks"
    /\ Less(linear.domain[1], linear.domain[2])
    /\ \/ tick_step(linear, linear.domain[1], linear.domain[2]) = R(-10)
       \/ tick_step(linear, linear.domain[1], linear.domain[2]) = R(5)
    /\ linear.domain = <<R(0), R(1)>>

\* The multiples of s from ceil(start/s)*s to floor(stop/s)*s, ascending.
Multiples(start, stop, s) ==
    LET first == Ceil(Div(start, s))
        last == Floor(Div(stop, s))
    IN  [i \in 1..(last - first + 1) |-> Mul(R(first + (i - 1)), s)]

TicksAreMultiples ==
    LET s == Spacing(tick_step(linear, linear.domain[1], linear.domain[2]))
    IN  /\ result.ticks = Multiples(linear.domain[1], linear.domain[2], s)
        /\ \A i \in 1..(Len(result.ticks) - 1) :
               Sub(result.ticks[i + 1], result.ticks[i]) = s

\* C5 as stated: for every domain [start,stop] with start < stop, get_ticks
\* returns exactly the multiples of the tick step from ceil(start/step)*step to
\* floor(stop/step)*step, ascending, without gaps or duplicates.
C5_AsStated ==
    (result.op = "get_ticks" /\ Less(linear.domain[1], linear.domain[2]))
        => TicksAreMultiples

\* C5, amended: for every domain [start,stop] with stop - start >= f32::EPSILON,
\* get_ticks returns exactly the multiples of the tick step from
\* ceil(start/step)*step to floor(stop/step)*step, ascending, without gaps or
\* duplicates, also when the step is below 1; domain [0,100] gives the 11 ticks
\* 0, 10, ..., 100.
C5_TicksAreMultiples ==
    /\ (/\ result.op = "get_ticks"
        /\ Less(linear.domain[1], linear.domain[2])
        /\ Distinct(linear.domain[1], linear.domain[2])) => TicksAreMultiples
    /\ (result.op = "get_ticks" /\ linear.domain = <<R(0), R(100)>>)
           => result.ticks = [i \in 1..11 |-> R(10 * (i - 1))]

\* get_ticks on the domain [0,1]: the reciprocal branch, 11 ticks from 0 to 1.
C5_Witness ==
    /\ result.op = "get_ticks"
    /\ linear.domain = <<R(0), R(1)>>
    /\ Len(result.ticks) = 11
    /\ result.ticks[2] = Rat(1, 10)
    /\ result.ticks[11] = R(1)

\* C6: with equal domain limits and tick_count > 0, get_ticks returns exactly
\* one tick, the domain value.
C6_EqualLimitsOneTick ==
    (/\ result.op = "get_ticks"
     /\ linear.domain[1] = linear.domain[2]
     /\ linear.tick_count > 0) => result.ticks = <<linear.domain[1]>>

C6_Witness ==
    /\ result.op = "get_ticks"
    /\ linear.domain[1] = linear.domain[2]
    /\ linear.domain[1] # R(0)
    /\ linear.tick_count > 0
    /\ Len(result.ticks) = 1

(***************************************************************************)
(* ScaleLogarithmic                                                        *)
(***************************************************************************)
\* The ticks get_ticks pushes at most in the model: with a tick distance of 0
\* its loop never ends.
MaxLogTicks == 60

\* compute_tick_distance adjusting the wrong way round: doubling below 2 and
\* halving above 5.
compute_tick_distance_swapped(self) ==
    LET domain_distance == Sub(self.domain[2], self.domain[1])
        tick_distance == Div(domain_distance, R(self.tick_count))
    IN  IF Less(domain_distance, R(0)) THEN NaN
        ELSE IF domain_distance = R(0) THEN R(0)
        ELSE LET power == Pow10(FloorLog10(tick_distance))
                 tick_count == Div(domain_distance, power)
             IN  IF Less(tick_count, R(2)) THEN Mul(power, R(2))
                 ELSE IF Less(R(5), tick_count) THEN Div(power, R(2))
                 ELSE power

\* Compute the distance between the ticks.  The logarithm of a negative
\* distance is NaN and stays NaN; the logarithm of 0 is -infinity, the power
\* of ten 0 and the tick count 0/0 = NaN, which is neither < 2 nor > 5.
compute_tick_distance(self) ==
    LET domain_distance == Sub(self.domain[2], self.domain[1])
        tick_distance == Div(domain_distance, R(self.tick_count))
    IN  IF Less(domain_distance, R(0)) THEN NaN
        ELSE IF domain_distance = R(0) THEN R(0)
        ELSE LET power == Pow10(FloorLog10(tick_distance))
                 tick_count == Div(domain_distance, power)
             IN  IF Less(tick_count, R(2)) THEN Div(power, R(2))
                 ELSE IF Less(R(5), tick_count) THEN Mul(power, R(2))
                 ELSE power

\* The domains of the logarithmic scale: the positive limits of the grid, the
\* default [1, 1000], and [1, 1001], whose span is a power of ten.
LogDomains ==
    ({x \in GridVals : Less(R(0), x)} \X {x \in GridVals : Less(R(0), x)})
        \cup {<<R(1), R(1000)>>, <<R(1), R(1001)>>}

\* get_ticks is between its first and its last statement.
LogRunning == result.op = "log_get_ticks" /\ result.pc = "loop"

\* ScaleLogarithmic::set_domain
LogSetDomain(d) ==
    /\ ~LogRunning
    /\ logarithmic' = [logarithmic EXCEPT !.domain = d]
    /\ result' = NoResult
    /\ UNCHANGED <<linear, axis, history>>

\* ScaleLogarithmic::get_ticks up to its loop: the tick distance is computed
\* and the first tick is the domain minimum.
LogGetTicksBegin ==
    /\ ~LogRunning
    /\ result' = [op |-> "log_get_ticks", pc |-> "loop",
                  tick_distance |-> compute_tick_distance(logarithmic),
                  tick |-> logarithmic.domain[1], ticks |-> <<>>]
    /\ UNCHANGED <<linear, logarithmic, axis, history>>

\* One turn of `while tick <= domain_max`.
LogGetTicksLoop ==
    /\ LogRunning
    /\ Leq(result.tick, logarithmic.domain[2])
    /\ Len(result.ticks) < MaxLogTicks
    /\ result' = [result EXCEPT !.ticks = Append(@, result.tick),
                                !.tick = Add(@, result.tick_distance)]
    /\ UNCHANGED <<linear, logarithmic, axis, history>>

\* The loop ends and get_ticks returns the ticks.
LogGetTicksReturn ==
    /\ LogRunning
    /\ ~Leq(result.tick, logarithmic.domain[2])
    /\ result' = [result EXCEPT !.pc = "done"]
    /\ UNCHANGED <<linear, logarithmic, axis, history>>

NextLog ==
    \/ \E d \in LogDomains : LogSetDomain(d)
    \/ LogGetTicksBegin
    \/ LogGetTicksLoop
    \/ LogGetTicksReturn

SpecLog == Init /\ [][NextLog]_vars

(***************************************************************************)
(* The claims about the logarithmic scale, checked under SpecLog.          *)
(***************************************************************************)
LogSpan == Sub(logarithmic.domain[2], logarithmic.domain[1])

\* C7 as stated: the tick count that results from compute_tick_distance, the
\* domain span over the distance returned, lies in [2, 5].
C7_AsStated ==
    (result.op = "log_get_ticks" /\ Less(R(0), LogSpan)) =>
        LET count == Div(LogSpan, result.tick_distance)
        IN  Leq(R(2), count) /\ Leq(count, R(5))

\* C7, amended: compute_tick_distance adjusts the power-of-ten distance
\* p = 10^floor(log10(span / tick_count)) once: it returns p/2 when span/p < 2,
\* 2p when span/p > 5 and p otherwise.  With the tick_count of 10 every scale
\* has it returns 2p, and the resulting tick count span/(2p) lies in [5, 50), not
\* in [2, 5]: for the default domain [1, 1000] the distance is 20 and the count
\* 999/20.
C7_OneAdjustment ==
    (result.op = "log_get_ticks" /\ Less(R(0), LogSpan)) =>
        LET p == Pow10(FloorLog10(Div(LogSpan, R(logarithmic.tick_count))))
            before == Div(LogSpan, p)
            d == result.tick_distance
            count == Div(LogSpan, d)
        IN  /\ Less(before, R(2)) => d = Div(p, R(2))
            /\ Less(R(5), before) => d = Mul(R(2), p)
            /\ (Leq(R(2), before) /\ Leq(before, R(5))) => d = p
            /\ logarithmic.tick_count = DefaultTickCount =>
                   /\ d = Mul(R(2), p)
                   /\ Leq(R(5), count) /\ Less(count, R(50))
            /\ logarithmic.domain = <<R(1), R(1000)>> =>
                   d = R(20) /\ count = Rat(999, 20)

\* get_ticks has computed the distance 20 for the default domain.
C7_Witness ==
    /\ result.op = "log_get_ticks"
    /\ logarithmic.domain = <<R(1), R(1000)>>
    /\ logarithmic.tick_count = 10
    /\ result.tick_distance = R(20)

(***************************************************************************)
(* Axis::characters_to_px                                                  *)
(***************************************************************************)
\* The character counts and the font sizes drawn: 0..MaxCharacters and
\* 0..MaxFontSize.
MaxCharacters == 8
MaxFontSize == 16

\* f32::round: to the nearest integer, halves away from zero.
Round(x) ==
    IF x[1] < 0 THEN -Floor(Add(Neg(x), Rat(1, 2))) ELSE Floor(Add(x, Rat(1, 2)))

\* characters_to_px rounding to the nearest pixel.
characters_to_px_rounded(characters, font_size) ==
    Round(Add(R(12), Mul(R(characters * font_size), Rat(7, 10))))

\* characters_to_px rounding up to the next pixel.
characters_to_px_ceil(characters, font_size) ==
    Ceil(Add(R(12), Mul(R(characters * font_size), Rat(7, 10))))

\* tick space + characters * fontsize * proportion, cast to i32.
characters_to_px(characters, font_size) ==
    Trunc(Add(R(12), Mul(R(characters * font_size), Rat(7, 10))))

\* A call of Axis::characters_to_px, as tests::calculate_px makes it.
CallCharactersToPx ==
    /\ \E characters \in 0..MaxCharacters : \E font_size \in 0..MaxFontSize :
           result' = [op |-> "characters_to_px",
                      characters |-> characters, font_size |-> font_size,
                      px |-> characters_to_px(characters, font_size)]
    /\ UNCHANGED <<linear, logarithmic, axis, history>>

NextPx == CallCharactersToPx

SpecPx == Init /\ [][NextPx]_vars

(***************************************************************************)
(* The claims about characters_to_px, checked under SpecPx.                *)
(***************************************************************************)
\* 12 + chars * font_size * 0.7
PxExact(characters, font_size) ==
    Add(R(12), Mul(Mul(R(characters), R(font_size)), Rat(7, 10)))

\* C8 as stated: characters_to_px(chars, font_size) is 12 + chars*font_size*0.7
\* rounded to the nearest integer; chars = 6, font_size = 14 gives 71.
C8_AsStated ==
    result.op = "characters_to_px" =>
        /\ result.px = Round(PxExact(result.characters, result.font_size))
        /\ (result.characters = 6 /\ result.font_size = 14) => result.px = 71

\* C8, amended: characters_to_px(chars, font_size) is 12 + chars*font_size*0.7
\* rounded down: the nearest integer when the fraction is below 0.5, and one
\* less than the nearest integer otherwise; chars = 6, font_size = 14 gives 70.
C8_RoundedDown ==
    result.op = "characters_to_px" =>
        LET v == PxExact(result.characters, result.font_size)
            fraction == Sub(v, R(Floor(v)))
        IN  /\ Less(fraction, Rat(1, 2)) => result.px = Round(v)
            /\ ~Less(fraction, Rat(1, 2)) => result.px = Round(v) - 1
            /\ (result.characters = 6 /\ result.font_size = 14) => result.px = 70

C8_Witness ==
    /\ result.op = "characters_to_px"
    /\ result.characters = 6
    /\ result.font_size = 14
    /\ result.px = 70

\* C9: characters_to_px(chars, font_size) is 12 + chars*font_size*0.7 with the
\* fraction discarded; a label of 7 characters at font size 14 gives 80.
C9_Truncated ==
    result.op = "characters_to_px" =>
        LET v == PxExact(result.characters, result.font_size)
        IN  /\ Leq(R(result.px), v)
            /\ Less(v, R(result.px + 1))
            /\ (result.characters = 7 /\ result.font_size = 14) => result.px = 80

C9_Witness ==
    /\ result.op = "characters_to_px"
    /\ result.characters = 7
    /\ result.font_size = 14
    /\ result.px = 80
    /\ PxExact(7, 14) = Rat(403, 5)

(***************************************************************************)
(* AxisTick                                                                *)
(***************************************************************************)
\* format!("{}px", size)
Px(size) == ToString(size) \o "px"

\* Set label rotation.
tick_set_label_rotation(tick, rotation) == [tick EXCEPT !.label_rotation = rotation]

\* Set label format.
tick_set_label_format(tick, format) == [tick EXCEPT !.label_format = Some(format)]

\* Set label font size.
tick_set_label_font_size(tick, size) == [tick EXCEPT !.label_font_size = Px(size)]

\* Create a new instance of AxisTick.
AxisTickNew(tick_offset, label_offset, label_rotation, label, label_font_size_opt, axis_position) ==
    LET new_axis_tick ==
            [label_offset |-> label_offset,
             tick_offset |-> tick_offset,
             label_rotation |-> label_rotation,
             label |-> label,
             axis_position |-> axis_position,
             label_format |-> None,
             label_font_size |-> "12px"]
    IN  IF label_font_size_opt # None
        THEN tick_set_label_font_size(new_axis_tick, Unwrap(label_font_size_opt))
        ELSE new_axis_tick

(***************************************************************************)
(* Axis                                                                    *)
(***************************************************************************)
AxisPosition == {"Top", "Right", "Bottom", "Left"}

\* The digits of the fraction f (0 <= f < 1) of a number, at most n of them.
RECURSIVE FractionDigits(_, _)
FractionDigits(f, n) ==
    IF f = R(0) \/ n = 0 THEN ""
    ELSE LET t == Mul(f, R(10))
         IN  ToString(Floor(t)) \o FractionDigits(Sub(t, R(Floor(t))), n - 1)

\* The digits f32's Display prints at most.
MaxDigits == 9

\* ToString::to_string on an f32: the integer part and, when there is one, the
\* fraction after a point.
F32ToString(x) ==
    LET a == Abs(x)
        whole == ToString(Floor(a))
        f == Sub(a, R(Floor(a)))
    IN  (IF x[1] < 0 THEN "-" ELSE "")
            \o whole
            \o (IF f = R(0) THEN "" ELSE "." \o FractionDigits(f, MaxDigits))

\* The scale an axis is built from, behind `&dyn Scale<T>`.
LinearScale(s) == [type |-> "Linear", scale |-> s]

\* A band scale: the category labels of its domain, in order, and its range.
BandScale(domain, range) == [type |-> "Band", scale |-> [domain |-> domain, range |-> range]]

\* The pixel width of one band: the range shared evenly by the categories.
band_bandwidth(self) ==
    IF Len(self.domain) = 0
    THEN None
    ELSE Some(Div(R(self.range[2] - self.range[1]), R(Len(self.domain))))

\* The pixel start of the band of a category.
band_scale(self, category) ==
    LET i == CHOOSE j \in 1..Len(self.domain) : self.domain[j] = category
    IN  Add(R(self.range[1]), Mul(R(i - 1), Unwrap(band_bandwidth(self))))

\* The ticks of a band scale: its domain.
band_get_ticks(self) == self.domain

ScaleGetType(s) == s.type

ScaleGetTicks(s) == IF s.type = "Band" THEN band_get_ticks(s.scale) ELSE get_ticks(s.scale)

ScaleScale(s, tick) ==
    IF s.type = "Band" THEN band_scale(s.scale, tick) ELSE scale(s.scale, tick)

\* Get the bandwidth (if present).
ScaleBandwidth(s) == IF s.type = "Band" THEN band_bandwidth(s.scale) ELSE Some(R(0))

ScaleDomainMax(s) == s.scale.domain[2]

ScaleTickToString(s, tick) == IF s.type = "Band" THEN tick ELSE F32ToString(tick)

\* The longest of the lengths of the strings, 0 when there is none.
RECURSIVE MaxLen(_)
MaxLen(strings) ==
    IF strings = <<>> THEN 0 ELSE Max(Len(Head(strings)), MaxLen(Tail(strings)))

\* Compute the length of the axis.
get_axis_length(position, chart) ==
    IF position = "Top" \/ position = "Bottom"
    THEN chart.view_width
    ELSE chart.view_height

\* Calculate analogue for the length of the tick labels.
calculate_max_tick_length(s) ==
    IF ScaleGetType(s) = "Band"
    THEN [kind |-> "Band", characters |-> MaxLen(s.scale.domain)]
    ELSE [kind |-> "Linear", upper_bound |-> ScaleDomainMax(s)]

\* generate_tick placing the tick at the raw scaled position.
generate_tick_at_band_start(s, position, label_offset, tick) ==
    AxisTickNew(ScaleScale(s, tick), label_offset, 0,
                ScaleTickToString(s, tick), None, position)

\* The body of the loop of generate_ticks: the AxisTick of one tick of the scale.
generate_tick(s, position, label_offset, tick) ==
    AxisTickNew(IF ScaleGetType(s) = "Band"
                THEN Add(ScaleScale(s, tick), Div(Unwrap(ScaleBandwidth(s)), R(2)))
                ELSE ScaleScale(s, tick),
                label_offset, 0, ScaleTickToString(s, tick), None, position)

\* The loop of generate_ticks over the ticks of the scale.
generate_ticks_of(s, position, label_offset, ticks) ==
    [i \in 1..Len(ticks) |-> generate_tick(s, position, label_offset, ticks[i])]

\* Generate ticks for the axis based on the scale and position.
generate_ticks(s, position) ==
    generate_ticks_of(s, position,
                      IF position = "Top" \/ position = "Bottom" THEN 16 ELSE 12,
                      ScaleGetTicks(s))

\* Generate the line that represents the axis.
get_axis_line(position, chart) ==
    IF position = "Top" \/ position = "Bottom"
    THEN [x1 |-> 0, y1 |-> 0, x2 |-> chart.view_width, y2 |-> 0]
    ELSE [x1 |-> 0, y1 |-> 0, x2 |-> 0, y2 |-> chart.view_height]

\* Create a new instance of an axis for a chart based on the provided scale and position.
AxisNew(s, position, chart) ==
    [ticks |-> generate_ticks(s, position),
     tick_label_font_size |-> None,
     max_tick_length |-> calculate_max_tick_length(s),
     position |-> position,
     axis_line |-> get_axis_line(position, chart),
     label |-> "",
     label_rotation |-> 0,
     label_format |-> "",
     length |-> get_axis_length(position, chart),
     label_font_size |-> "14px"]

\* The scales the axes are built from: the domains [0,100], [0,1], [-50,50]
\* and [5,5] on the ranges [0,500] and [500,0].
AxisScales ==
    {LinearScale([ScaleLinearDefault EXCEPT !.domain = d, !.range = r]) :
        d \in {<<R(0), R(100)>>, <<R(0), R(1)>>, <<R(-50), R(50)>>, <<R(5), R(5)>>},
        r \in {<<0, 500>>, <<500, 0>>}}

\* The band scales the axes are built from: categories that are names, and
\* categories that are the text of numbers, on the range [0,300].
BandScales ==
    {BandScale(domain, <<0, 300>>) :
        domain \in {<<"apple", "kiwi", "fig">>, <<"2020", "2021">>}}

\* The arguments an axis was built from.
Built(s, position, chart) ==
    [font_size |-> None, rotation |-> None, format |-> None,
     scale |-> s, position |-> position, chart |-> chart]

\* The chart's view.
Charts == {[view_width |-> 800, view_height |-> 600]}

\* The arguments of the setters.
TickFontSizes == {8, 20}
Rotations == {-45, 0, 90}
Formats == {".2f", ".3%"}
Labels == {"", "value"}
LabelFontSizes == {14, 18}

\* The decimal digits, and the value of the character c when it is one.
DecimalDigits == <<"0", "1", "2", "3", "4", "5", "6", "7", "8", "9">>

digit(c) ==
    IF \E k \in 1..10 : DecimalDigits[k] = c
    THEN Some((CHOOSE k \in 1..10 : DecimalDigits[k] = c) - 1)
    ELSE None

\* Read the digits s of a decimal number, at most one point among them:
\* n / d is the number read so far, point tells that the point was read.
RECURSIVE parse_digits(_, _, _, _)
parse_digits(s, n, d, point) ==
    IF s = "" THEN Some(Rat(n, d))
    ELSE IF Head(s) = "." THEN
        IF point THEN None ELSE parse_digits(Tail(s), n, d, TRUE)
    ELSE IF digit(Head(s)) = None THEN None
    ELSE parse_digits(Tail(s), 10 * n + Unwrap(digit(Head(s))),
                      IF point THEN 10 * d ELSE d, point)

\* str::parse::<f64> on a decimal number: a sign if any, then digits with at
\* most one point and at least one digit; None for every other text.
\* (Exponents and the texts "inf", "infinity" and "nan" are not among the
\* labels drawn.)
parse_f64(label) ==
    LET signed == label # "" /\ (Head(label) = "-" \/ Head(label) = "+")
        digits == IF signed THEN Tail(label) ELSE label
        parsed == parse_digits(digits, 0, 1, FALSE)
    IN  IF digits = "" \/ digits = "." \/ parsed = None THEN None
        ELSE IF signed /\ Head(label) = "-" THEN Some(Neg(Unwrap(parsed)))
        ELSE parsed

\* The last p decimal digits of n.
RECURSIVE Digits(_, _)
Digits(n, p) == IF p = 0 THEN "" ELSE Digits(n \div 10, p - 1) \o ToString(n % 10)

\* A number printed with p digits after the point, rounded to the nearest.
Fixed(x, p) ==
    LET scaled == Floor(Add(Mul(Abs(x), R(IntPow10(p))), Rat(1, 2)))
    IN  (IF x[1] < 0 /\ scaled > 0 THEN "-" ELSE "")
            \o ToString(scaled \div IntPow10(p))
            \o (IF p = 0 THEN "" ELSE "." \o Digits(scaled % IntPow10(p), p))

\* NumberFormat::format: ".2f" prints two digits after the point, ".3%" the
\* hundredfold with three digits and a percent sign, "" the shortest text.
\* None of them prints a 'G' for replace('G', "B") to change.
format_num(format, x) ==
    CASE format = ".2f" -> Fixed(x, 2)
      [] format = ".3%" -> Fixed(Mul(x, R(100)), 3) \o "%"
      [] OTHER -> F32ToString(x)

InitAxis ==
    /\ linear = ScaleLinearDefault
    /\ logarithmic = ScaleLogarithmicDefault
    /\ result = NoResult
    /\ \E position \in AxisPosition : \E chart \in Charts :
           \/ \E s \in AxisScales :
                  /\ axis = AxisNew(s, position, chart)
                  /\ history = Built(s, position, chart)
           \/ \E s \in BandScales :
                  /\ axis = AxisNew(s, position, chart)
                  /\ history = Built(s, position, chart)

\* set_tick_label_font_size storing the size without patching the ticks.
set_tick_label_font_size_unpatched(self, size) ==
    [self EXCEPT !.tick_label_font_size = Some(size)]

\* Set axis label.
set_axis_label(self, label) == [self EXCEPT !.label = label]

\* Set font size for axis label.
set_axis_label_font_size(self, size) == [self EXCEPT !.label_font_size = Px(size)]

\* Set tick label rotation.
set_tick_label_rotation(self, rotation) ==
    [self EXCEPT !.label_rotation = rotation,
                 !.ticks = [i \in 1..Len(@) |-> tick_set_label_rotation(@[i], rotation)]]

\* Set tick label font size.
set_tick_label_font_size(self, size) ==
    [self EXCEPT !.tick_label_font_size = Some(size),
                 !.ticks = [i \in 1..Len(@) |-> tick_set_label_font_size(@[i], size)]]

\* set_tick_label_format writing the formatted text into the labels that are
\* numbers.
set_tick_label_format_applied(self, format) ==
    [self EXCEPT !.label_format = format,
                 !.ticks = [i \in 1..Len(@) |->
                    [tick_set_label_format(@[i], format) EXCEPT !.label =
                        IF parse_f64(@) = None THEN @
                        ELSE format_num(format, Unwrap(parse_f64(@)))]]]

\* Set the label format.
set_tick_label_format(self, format) ==
    [self EXCEPT !.label_format = format,
                 !.ticks = [i \in 1..Len(@) |-> tick_set_label_format(@[i], format)]]

\* What a rendering ends in: Ok(group), Err(error), or a panic that unwinds
\* out of the call.
Ok(group) == [outcome |-> "Ok", group |-> group]
Err(error) == [outcome |-> "Err", error |-> error]
Panic == [outcome |-> "panic"]

\* Render the axis tick to svg.
tick_to_svg(self) ==
    LET parsed == parse_f64(self.label)
    IN  IF self.label_format # None /\ parsed = None
        THEN Panic
        ELSE
            LET formatted_label ==
                    IF self.label_format # None
                    THEN format_num(Unwrap(self.label_format), Unwrap(parsed))
                    ELSE self.label
                placed ==
                    CASE self.axis_position = "Left" ->
                            [offsets |-> <<R(0), self.tick_offset>>,
                             tick_line_p2 |-> <<-6, 0>>,
                             tick_label_offset |-> <<-self.label_offset, 0>>,
                             tick_label_text_anchor |-> "end"]
                      [] self.axis_position = "Bottom" ->
                            [offsets |-> <<self.tick_offset, R(0)>>,
                             tick_line_p2 |-> <<0, 6>>,
                             tick_label_offset |-> <<0, self.label_offset>>,
                             tick_label_text_anchor |-> "middle"]
                      [] self.axis_position = "Right" ->
                            [offsets |-> <<R(0), self.tick_offset>>,
                             tick_line_p2 |-> <<6, 0>>,
                             tick_label_offset |-> <<self.label_offset, 0>>,
                             tick_label_text_anchor |-> "start"]
                      [] self.axis_position = "Top" ->
                            [offsets |-> <<self.tick_offset, R(0)>>,
                             tick_line_p2 |-> <<0, -6>>,
                             tick_label_offset |-> <<0, -self.label_offset>>,
                             tick_label_text_anchor |-> "middle"]
            IN  Ok([class |-> "tick",
                    translate |-> placed.offsets,
                    tick_line |-> placed.tick_line_p2,
                    rotate |-> <<self.label_rotation>> \o placed.tick_label_offset,
                    x |-> placed.tick_label_offset[1],
                    y |-> placed.tick_label_offset[2],
                    text_anchor |-> placed.tick_label_text_anchor,
                    font_size |-> self.label_font_size,
                    text |-> formatted_label])

\* Calculate the y position for the label
calculate_y_for_label(self) ==
    LET font_size ==
            IF self.tick_label_font_size # None THEN Unwrap(self.tick_label_font_size) ELSE 12
        characters ==
            IF self.max_tick_length.kind = "Band"
            THEN self.max_tick_length.characters
            ELSE Len(format_num(self.label_format, self.max_tick_length.upper_bound)) + 2
        calculated == characters_to_px(characters, font_size)
    IN  IF self.position = "Top" \/ self.position = "Bottom" THEN 42 ELSE calculated

\* The axis label turned as the tick labels are.
label_rotate_as_ticks(self) == self.label_rotation

\* The rotation of the axis label.
label_rotate(self) ==
    CASE self.position = "Top" -> 0
      [] self.position = "Bottom" -> 0
      [] self.position = "Left" -> -90
      [] self.position = "Right" -> 90

\* Generate svg for the axis.
axis_to_svg(self) ==
    LET axis_class ==
            IF self.position = "Top" \/ self.position = "Bottom" THEN "x-axis" ELSE "y-axis"
        ticks == [i \in 1..Len(self.ticks) |-> tick_to_svg(self.ticks[i])]
        x == IF self.position = "Left" THEN -(self.length \div 2) ELSE self.length \div 2
        y == CASE self.position = "Top" -> -(calculate_y_for_label(self) - 10)
               [] self.position = "Bottom" -> calculate_y_for_label(self)
               [] OTHER -> -calculate_y_for_label(self)
        axis_label ==
            [x |-> x, y |-> y, text_anchor |-> "middle",
             font_size |-> self.label_font_size,
             rotate |-> label_rotate(self),
             text |-> self.label]
    IN  IF \E i \in 1..Len(ticks) : ticks[i].outcome = "panic"
        THEN Panic
        ELSE Ok([class |-> axis_class,
                 axis_line |-> self.axis_line,
                 ticks |-> [i \in 1..Len(ticks) |-> ticks[i].group],
                 label |-> IF self.label # "" THEN Some(axis_label) ELSE None])

SetAxisLabel(label) ==
    /\ axis' = set_axis_label(axis, label)
    /\ result' = NoResult
    /\ UNCHANGED <<linear, logarithmic, history>>

SetAxisLabelFontSize(size) ==
    /\ axis' = set_axis_label_font_size(axis, size)
    /\ result' = NoResult
    /\ UNCHANGED <<linear, logarithmic, history>>

SetTickLabelRotation(rotation) ==
    /\ axis' = set_tick_label_rotation(axis, rotation)
    /\ history' = [history EXCEPT !.rotation = Some(rotation)]
    /\ result' = NoResult
    /\ UNCHANGED <<linear, logarithmic>>

SetTickLabelFontSize(size) ==
    /\ axis' = set_tick_label_font_size(axis, size)
    /\ history' = [history EXCEPT !.font_size = Some(size)]
    /\ result' = NoResult
    /\ UNCHANGED <<linear, logarithmic>>

SetTickLabelFormat(format) ==
    /\ axis' = set_tick_label_format(axis, format)
    /\ history' = [history EXCEPT !.format = Some(format)]
    /\ result' = NoResult
    /\ UNCHANGED <<linear, logarithmic>>

\* A call of Axis::to_svg.
CallToSvg ==
    /\ result' = [op |-> "to_svg", value |-> axis_to_svg(axis)]
    /\ UNCHANGED <<linear, logarithmic, axis, history>>

\* A call of AxisTick::to_svg on one of the ticks of the axis.
CallTickToSvg ==
    /\ \E i \in 1..Len(axis.ticks) :
           result' = [op |-> "tick_to_svg", tick |-> i, value |-> tick_to_svg(axis.ticks[i])]
    /\ UNCHANGED <<linear, logarithmic, axis, history>>

NextAxis ==
    \/ \E label \in Labels : SetAxisLabel(label)
    \/ \E size \in LabelFontSizes : SetAxisLabelFontSize(size)
    \/ \E rotation \in Rotations : SetTickLabelRotation(rotation)
    \/ \E size \in TickFontSizes : SetTickLabelFontSize(size)
    \/ \E format \in Formats : SetTickLabelFormat(format)
    \/ CallToSvg
    \/ CallTickToSvg

SpecAxis == InitAxis /\ [][NextAxis]_vars

(***************************************************************************)
(* The claims about the axis, checked under SpecAxis.                      *)
(***************************************************************************)
AxisTicks == {axis.ticks[i] : i \in 1..Len(axis.ticks)}

\* C10: after any sequence of set_tick_label_font_size, set_tick_label_rotation
\* and set_tick_label_format calls, every tick of the axis holds the value of the
\* latest call of each kind (the font size as "<size>px", the rotation,
\* Some(format)), which is the value the axis stores; a tick of an axis on which
\* set_tick_label_font_size was never called has the font size "12px".
C10_TicksFollowSetters ==
    \A tick \in AxisTicks :
        /\ history.font_size # None =>
               /\ tick.label_font_size = Px(Unwrap(history.font_size))
               /\ axis.tick_label_font_size = history.font_size
        /\ history.font_size = None =>
               /\ tick.label_font_size = "12px"
               /\ axis.tick_label_font_size = None
        /\ history.rotation # None =>
               /\ tick.label_rotation = Unwrap(history.rotation)
               /\ axis.label_rotation = Unwrap(history.rotation)
        /\ history.format # None =>
               /\ tick.label_format = history.format
               /\ axis.label_format = Unwrap(history.format)

\* Each of the three setters was called, the font size twice with different
\* sizes, on an axis of eleven ticks.
C10_Witness ==
    /\ Len(axis.ticks) = 11
    /\ history.font_size = Some(20)
    /\ history.rotation = Some(-45)
    /\ history.format = Some(".3%")
    /\ \A tick \in AxisTicks :
           /\ tick.label_font_size = "20px"
           /\ tick.label_rotation = -45
           /\ tick.label_format = Some(".3%")

\* C11: whenever Axis::to_svg returns a group, the group holds an axis label
\* exactly when the label of the axis is not empty, and the rotation of that
\* label is -90 on a Left axis, 90 on a Right axis and 0 on a Top or Bottom
\* axis, whatever rotation set_tick_label_rotation gave the tick labels.
C11_LabelRotationByPosition ==
    (result.op = "to_svg" /\ result.value.outcome = "Ok") =>
        LET label == result.value.group.label
        IN  /\ (label # None) <=> (axis.label # "")
            /\ label # None =>
                   /\ axis.position = "Left" => Unwrap(label).rotate = -90
                   /\ axis.position = "Right" => Unwrap(label).rotate = 90
                   /\ axis.position \in {"Top", "Bottom"} => Unwrap(label).rotate = 0

\* A Left axis whose tick labels were turned by -45 renders its label "value"
\* turned by -90 and its eleven tick labels turned by -45.
C11_Witness ==
    /\ result.op = "to_svg"
    /\ result.value.outcome = "Ok"
    /\ axis.position = "Left"
    /\ history.rotation = Some(-45)
    /\ axis.label_rotation = -45
    /\ result.value.group.label # None
    /\ Unwrap(result.value.group.label).text = "value"
    /\ Unwrap(result.value.group.label).rotate = -90
    /\ Len(result.value.group.ticks) = 11
    /\ \A i \in 1..11 : result.value.group.ticks[i].rotate[1] = -45

\* The tick has a label format and a label that is the text of no number.
Unformattable(tick) == tick.label_format # None /\ parse_f64(tick.label) = None

\* C12: AxisTick::to_svg on a tick that has a label format and a label that is
\* the text of no number returns an error, and so does Axis::to_svg on an axis
\* with such a tick: neither aborts; a tick without a label format renders its
\* raw label unchanged, and an axis of such ticks renders.
C12_AsStated ==
    /\ result.op = "tick_to_svg" =>
           LET tick == axis.ticks[result.tick]
           IN  /\ Unformattable(tick) => result.value.outcome = "Err"
               /\ tick.label_format = None =>
                      /\ result.value.outcome = "Ok"
                      /\ result.value.group.text = tick.label
    /\ result.op = "to_svg" =>
           /\ (\E tick \in AxisTicks : Unformattable(tick)) => result.value.outcome = "Err"
           /\ (\A tick \in AxisTicks : tick.label_format = None) =>
                  /\ result.value.outcome = "Ok"
                  /\ \A i \in 1..Len(axis.ticks) :
                         result.value.group.ticks[i].text = axis.ticks[i].label

\* C13: the axis holds one tick for each value of get_ticks() of the scale it
\* was built from, in the same order, at every position: the tick of a linear
\* scale at the offset scale(value), the tick of a band scale at
\* scale(category) + bandwidth()/2; its raw label is the text of the value (a
\* number that parses back to the value, or the category itself); and every
\* tick has the label_offset 16 on a Top or Bottom axis and 12 on a Left or
\* Right axis, and the position of the axis.
C13_OneTickPerScaleTick ==
    LET s == history.scale
        ticks == IF s.type = "Band" THEN s.scale.domain ELSE get_ticks(s.scale)
    IN  /\ Len(axis.ticks) = Len(ticks)
        /\ \A i \in 1..Len(ticks) :
               LET tick == axis.ticks[i]
               IN  /\ s.type = "Linear" =>
                          /\ tick.tick_offset = scale(s.scale, ticks[i])
                          /\ parse_f64(tick.label) = Some(ticks[i])
                   /\ s.type = "Band" =>
                          /\ tick.tick_offset =
                                 Add(band_scale(s.scale, ticks[i]),
                                     Div(Unwrap(band_bandwidth(s.scale)), R(2)))
                          /\ tick.label = ticks[i]
                   /\ axis.position \in {"Top", "Bottom"} => tick.label_offset = 16
                   /\ axis.position \in {"Left", "Right"} => tick.label_offset = 12
                   /\ tick.axis_position = axis.position
                   /\ axis.position = history.position

\* A Left axis just built from the band scale of "apple", "kiwi", "fig" on
\* [0,300]: three ticks at the middles 50, 150, 250 of the bands.
C13_Witness ==
    /\ history = Built(BandScale(<<"apple", "kiwi", "fig">>, <<0, 300>>), "Left", history.chart)
    /\ result = NoResult
    /\ [i \in 1..Len(axis.ticks) |-> axis.ticks[i].tick_offset] = <<R(50), R(150), R(250)>>
    /\ [i \in 1..Len(axis.ticks) |-> axis.ticks[i].label] = <<"apple", "kiwi", "fig">>
    /\ \A tick \in AxisTicks : tick.label_offset = 12 /\ tick.axis_position = "Left"

\* The fields no setter writes are the same in the axes a and b: the
\* position, the length, the axis line, and the number and the order of the
\* ticks with the tick_offset, the label_offset, the raw label and the
\* axis_position of each.
SameFrame(a, b) ==
    /\ b.position = a.position
    /\ b.length = a.length
    /\ b.axis_line = a.axis_line
    /\ b.max_tick_length = a.max_tick_length
    /\ Len(b.ticks) = Len(a.ticks)
    /\ \A i \in 1..Len(a.ticks) :
           /\ b.ticks[i].tick_offset = a.ticks[i].tick_offset
           /\ b.ticks[i].label_offset = a.ticks[i].label_offset
           /\ b.ticks[i].label = a.ticks[i].label
           /\ b.ticks[i].axis_position = a.ticks[i].axis_position

\* C16: every call of a setter of the axis (set_axis_label,
\* set_axis_label_font_size, set_tick_label_rotation, set_tick_label_font_size,
\* set_tick_label_format), and so every sequence of them, leaves the position,
\* the length, the axis line and the number, order, tick_offset, label_offset,
\* raw label and axis_position of the ticks as they were; set_axis_label and
\* set_axis_label_font_size leave the ticks as they were in every field.
C16_SettersFrame ==
    [][/\ SameFrame(axis, axis')
       /\ ((\E label \in Labels : SetAxisLabel(label))
              \/ (\E size \in LabelFontSizes : SetAxisLabelFontSize(size)))
           => axis'.ticks = axis.ticks]_vars

\* All five setters were called on an axis of eleven ticks, which are where
\* and what Axis::new made them.
C16_Witness ==
    LET built == AxisNew(history.scale, history.position, history.chart)
    IN  /\ axis.label = "value"
        /\ axis.label_font_size = "18px"
        /\ history.rotation = Some(90)
        /\ history.font_size = Some(8)
        /\ history.format = Some(".2f")
        /\ Len(axis.ticks) = 11
        /\ axis.ticks # built.ticks
        /\ SameFrame(built, axis)

(***************************************************************************)
(* The step of the linear ticks against the reference, checked under Spec. *)
(***************************************************************************)
\* The reference nice step: raw = (stop - start) / tick_count,
\* power = floor(log10(raw)), error = raw / 10^power, and the multiplier of
\* the decade the error falls in, times 10^power.
reference_step(start, stop, tick_count) ==
    LET raw == Div(Sub(stop, start), R(tick_count))
        power == FloorLog10(raw)
        error == Div(raw, Pow10(power))
    IN  Mul(R(Dynamic(error)), Pow10(power))

\* C14: for every domain [start,stop] with start < stop that get_ticks hands to
\* tick_step (stop - start is at least f32::EPSILON), the spacing tick_step
\* denotes is the reference nice step of (start, stop, tick_count), also when
\* the raw step is below 1 and no power of ten (domain [0,5], raw step 0.5).
C14_AsStated ==
    (DomainSet /\ Leq(EPSILON, Sub(linear.domain[2], linear.domain[1]))) =>
        Spacing(tick_step(linear, linear.domain[1], linear.domain[2]))
            = reference_step(linear.domain[1], linear.domain[2], linear.tick_count)

(***************************************************************************)
(* The loop of the logarithmic ticks, checked under SpecLog.               *)
(***************************************************************************)
\* C15: get_ticks of a logarithmic scale with min <= max terminates: on a
\* domain with min = max it pushes one tick at most, and on a domain with
\* min < max no more than floor((max - min) / d) + 1 ticks, d being the tick
\* distance; and the ticks it returns are min, min + d, ... up to the last of
\* these that is <= max.
C15_AsStated ==
    (result.op = "log_get_ticks" /\ Leq(logarithmic.domain[1], logarithmic.domain[2])) =>
        LET min == logarithmic.domain[1]
            max == logarithmic.domain[2]
            d == result.tick_distance
            n == Len(result.ticks)
        IN  /\ min = max => n <= 1
            /\ Less(min, max) => n <= Floor(Div(Sub(max, min), d)) + 1
            /\ result.pc = "done" =>
                   /\ \A i \in 1..n :
                          /\ result.ticks[i] = Add(min, Mul(R(i - 1), d))
                          /\ Leq(result.ticks[i], max)
                   /\ Less(max, Add(min, Mul(R(n), d)))

====
